---- MODULE Spec2Model ----
(***************************************************************************)
(* Model of the Java language helper of the fn CLI (package langs,         *)
(* JavaLangHelper): FDK version resolution with its two registries, cache  *)
(* and environment override, image selection, boilerplate generation and   *)
(* the pre-build check.                                                    *)
(*                                                                         *)
(* One helper instance h lives in one process.  Every helper method is one *)
(* atomic action (the program is single threaded).  What the registries    *)
(* answer and which filesystem operation fails are inputs of the actions.  *)
(* A Go panic that nothing recovers ends the process: crashed becomes TRUE *)
(* and no further action is enabled.                                       *)
(***************************************************************************)
EXTENDS Integers, Sequences, FiniteSets, TLC

\* ------------------------------------------------------------------ bounds
\* longest JSON array the secondary registry answers with
MaxItems == 2
\* largest number of <version> entries in the primary registry's document
MaxVersionEntries == 1

\* most pages the application service splits its list into
MaxPages == 3
\* most applications on one page
MaxPageSize == 2
\* largest value of the flag n of the list command
MaxLimit == 4

\* the version strings the registries and the override variable carry
Versions == {"1.0.1", "2.3.1"}

\* ------------------------------------------------------- program constants
versionEnv == "FN_JAVA_FDK_VERSION"
mavenVersionUrl == "https://repo1.maven.org/maven2/com/fnproject/fn/fdk/maven-metadata.xml"
bintrayVersionURL == "https://api.bintray.com/search/packages/maven?repo=fnproject&g=com.fnproject.fn&a=fdk"
StatusOK == 200

\* the sub-versions a helper can be constructed with (h.version); "17" stands
\* for a sub-version the helper does not know
JavaVersions == {"8", "11", "17"}

\* --------------------------------------------------------------- errors
\* An error is its message, a sequence of text pieces (fmt.Errorf with %s
\* becomes the format's pieces with the argument in between); nil is <<>>.
NilErr == <<>>
Mentions(err, word) == \E i \in 1..Len(err) : err[i] = word

fetchError ==
  <<"Failed to fetch latest Java FDK javaVersion. Check your network settings or manually override the javaVersion by setting ",
    versionEnv>>
ErrBoilerplateExists == <<"Function boilerplate already exists">>
ErrUnsupported(javaVersion) == <<"unsupported java version ", javaVersion>>
ErrNoPom == <<"Could not find ", "pom.xml", " - are you sure this is a Maven project?">>
ErrGetwd == <<"getwd: ", "no such file or directory">>
ErrFs(path) == <<"open ", path, ": permission denied">>

\* ------------------------------------------------------ registry answers
\* A response body.  fmt "xml": a document with root element metadata, the
\* text of versioning/latest and the number of versioning/versions/version
\* entries.  fmt "json": a JSON value, top its kind and items the elements
\* of an array.  fmt "text": bytes that are neither XML nor JSON.
XmlBody(latest, n) ==
  [fmt |-> "xml", latest |-> latest, versions |-> n, top |-> "none", items |-> <<>>]
JsonBody(top, items) ==
  [fmt |-> "json", latest |-> "", versions |-> 0, top |-> top, items |-> items]
TextBody ==
  [fmt |-> "text", latest |-> "", versions |-> 0, top |-> "none", items |-> <<>>]

\* An element of the JSON array: an object whose latest_version member is v
\* ("" when the member is absent or empty), or a value of another type.
JsonItems ==
  [kind : {"object"}, latest_version : Versions \cup {""}]
    \cup {[kind |-> "number", latest_version |-> ""]}
JsonArrays == UNION {[1..k -> JsonItems] : k \in 0..MaxItems}

\* A metadata document without version entries carries a latest field too.
XmlBodies ==
  {XmlBody(l, n) : l \in Versions \cup {""}, n \in 1..MaxVersionEntries}
    \cup {XmlBody(l, 0) : l \in Versions}
JsonBodies ==
  {JsonBody("array", a) : a \in JsonArrays}
    \cup {JsonBody("null", <<>>), JsonBody("object", <<>>)}

\* What client.Get and the read of the body give for one query:
\*   "transport": client.Get returns a nil response and an error;
\*   "redirect":  client.Get returns an error with a non-nil response (the
\*                redirect policy failed);
\*   "http":      a response with a status; readOk tells whether
\*                ioutil.ReadAll of the body succeeds.
Http(status, readOk, body) ==
  [kind |-> "http", status |-> status, readOk |-> readOk, body |-> body]
Failures ==
  {[kind |-> "transport", status |-> 0, readOk |-> FALSE, body |-> TextBody],
   [kind |-> "redirect", status |-> 302, readOk |-> FALSE, body |-> TextBody],
   Http(204, TRUE, TextBody),
   Http(404, TRUE, TextBody),
   Http(StatusOK, FALSE, TextBody)}
\* the answers of the primary and of the secondary registry
PrimaryResponses ==
  Failures \cup {Http(StatusOK, TRUE, b) : b \in XmlBodies \cup {TextBody}}
SecondaryResponses ==
  Failures \cup {Http(StatusOK, TRUE, b) : b \in JsonBodies \cup {TextBody}}

\* ----------------------------------------------------- getURLResponse
\* defer resp.Body.Close() is evaluated before the error check: with a nil
\* response it panics.  Otherwise an error or a status other than 200 is an
\* error, and so is a failed read of the body.
getURLResponse(resp) ==
  IF resp.kind = "transport"
    THEN [panic |-> TRUE, err |-> TRUE, data |-> TextBody]
  ELSE IF resp.kind = "redirect" \/ resp.status # StatusOK
    THEN [panic |-> FALSE, err |-> TRUE, data |-> TextBody]
  ELSE IF ~resp.readOk
    THEN [panic |-> FALSE, err |-> TRUE, data |-> TextBody]
  ELSE [panic |-> FALSE, err |-> FALSE, data |-> resp.body]

\* ----------------------------------------------------- parseMavenResponse
parseMavenResponse(data) ==
  IF data.fmt # "xml"
    THEN [version |-> "", err |-> TRUE]
  ELSE IF data.versions = 0
    THEN [version |-> "", err |-> TRUE]
  ELSE [version |-> data.latest, err |-> FALSE]

\* --------------------------------------------------- parseBintrayResponse
\* json.Unmarshal into a slice: a value that is no array or an element of
\* the wrong type is an error; null makes the slice nil and [] makes it
\* empty, and parsedResp[0] then panics (index out of range).
parseBintrayResponse(data) ==
  IF data.fmt # "json" \/ data.top = "object"
    THEN [version |-> "", err |-> TRUE, panic |-> FALSE]
  ELSE IF data.top = "array" /\ \E i \in 1..Len(data.items) : data.items[i].kind # "object"
    THEN [version |-> "", err |-> TRUE, panic |-> FALSE]
  ELSE IF data.top = "null" \/ Len(data.items) = 0
    THEN [version |-> "", err |-> FALSE, panic |-> TRUE]
  ELSE [version |-> data.items[1].latest_version, err |-> FALSE, panic |-> FALSE]

\* ---------------------------------------------------- getFDKLatestFromURL
\* One query as the history records it.
Query(url, insecure, resp) == [url |-> url, insecureSkipVerify |-> insecure, resp |-> resp]

FDKResult(version, pType, err, panic, queries) ==
  [version |-> version, pType |-> pType, err |-> err, panic |-> panic, queries |-> queries]

\* Variant: both registries are asked before either answer is looked at.
getFDKLatestFromURL_BothAsked(r1, r2) ==
  LET q1 == Query(mavenVersionUrl, FALSE, r1)
      q2 == Query(bintrayVersionURL, TRUE, r2)
      g1 == getURLResponse(r1)
      p1 == parseMavenResponse(g1.data)
      g2 == getURLResponse(r2)
      p2 == parseBintrayResponse(g2.data)
  IN  IF g1.panic THEN FDKResult("", "", TRUE, TRUE, <<q1>>)
      ELSE IF g2.panic THEN FDKResult("", "", TRUE, TRUE, <<q1, q2>>)
      ELSE IF ~g1.err /\ ~p1.err THEN FDKResult(p1.version, "maven", FALSE, FALSE, <<q1, q2>>)
      ELSE IF ~g2.err /\ p2.panic THEN FDKResult("", "", TRUE, TRUE, <<q1, q2>>)
      ELSE IF ~g2.err /\ ~p2.err THEN FDKResult(p2.version, "bintray", FALSE, FALSE, <<q1, q2>>)
      ELSE FDKResult("", "", g2.err, FALSE, <<q1, q2>>)

\* Variant: a failed query of the primary registry is made a second time.
getFDKLatestFromURL_Retries(r1, r2) ==
  LET q1 == Query(mavenVersionUrl, FALSE, r1)
      q2 == Query(bintrayVersionURL, TRUE, r2)
      g1 == getURLResponse(r1)
      p1 == parseMavenResponse(g1.data)
      g2 == getURLResponse(r2)
      p2 == parseBintrayResponse(g2.data)
  IN  IF g1.panic THEN FDKResult("", "", TRUE, TRUE, <<q1>>)
      ELSE IF ~g1.err /\ ~p1.err THEN FDKResult(p1.version, "maven", FALSE, FALSE, <<q1>>)
      ELSE IF g2.panic THEN FDKResult("", "", TRUE, TRUE, <<q1, q1, q2>>)
      ELSE IF ~g2.err /\ p2.panic THEN FDKResult("", "", TRUE, TRUE, <<q1, q1, q2>>)
      ELSE IF ~g2.err /\ ~p2.err
        THEN FDKResult(p2.version, "bintray", FALSE, FALSE, <<q1, q1, q2>>)
      ELSE FDKResult("", "", g2.err, FALSE, <<q1, q1, q2>>)

\* Variant: certificate verification is switched off for both registries.
getFDKLatestFromURL_InsecurePrimary(r1, r2) ==
  LET q1 == Query(mavenVersionUrl, TRUE, r1)
      q2 == Query(bintrayVersionURL, TRUE, r2)
      g1 == getURLResponse(r1)
      p1 == parseMavenResponse(g1.data)
      g2 == getURLResponse(r2)
      p2 == parseBintrayResponse(g2.data)
  IN  IF g1.panic THEN FDKResult("", "", TRUE, TRUE, <<q1>>)
      ELSE IF ~g1.err /\ ~p1.err THEN FDKResult(p1.version, "maven", FALSE, FALSE, <<q1>>)
      ELSE IF g2.panic THEN FDKResult("", "", TRUE, TRUE, <<q1, q2>>)
      ELSE IF ~g2.err /\ p2.panic THEN FDKResult("", "", TRUE, TRUE, <<q1, q2>>)
      ELSE IF ~g2.err /\ ~p2.err THEN FDKResult(p2.version, "bintray", FALSE, FALSE, <<q1, q2>>)
      ELSE FDKResult("", "", g2.err, FALSE, <<q1, q2>>)

\* r1 is what the primary registry answers, r2 what the secondary registry
\* answers if it is asked.  The error returned at the end is the error of
\* the second getURLResponse, not the parse error.
getFDKLatestFromURL(r1, r2) ==
  LET q1 == Query(mavenVersionUrl, FALSE, r1)
      q2 == Query(bintrayVersionURL, TRUE, r2)
      g1 == getURLResponse(r1)
      p1 == parseMavenResponse(g1.data)
      g2 == getURLResponse(r2)
      p2 == parseBintrayResponse(g2.data)
  IN  IF g1.panic THEN FDKResult("", "", TRUE, TRUE, <<q1>>)
      ELSE IF ~g1.err /\ ~p1.err THEN FDKResult(p1.version, "maven", FALSE, FALSE, <<q1>>)
      ELSE IF g2.panic THEN FDKResult("", "", TRUE, TRUE, <<q1, q2>>)
      ELSE IF ~g2.err /\ p2.panic THEN FDKResult("", "", TRUE, TRUE, <<q1, q2>>)
      ELSE IF ~g2.err /\ ~p2.err THEN FDKResult(p2.version, "bintray", FALSE, FALSE, <<q1, q2>>)
      ELSE FDKResult("", "", g2.err, FALSE, <<q1, q2>>)

\* ---------------------------------------------------- GetLatestFDKVersion
\* The result of h.GetLatestFDKVersion() on a helper whose fields are
\* latest (h.latestFdkVersion) and pType (h.pomType), with the override
\* variable holding envValue: the returned version and error, the fields
\* afterwards, where the version came from ("cache", "env", "network", or
\* "none"), the queries made (url and TLS setting) and the answers they got.
VersionResult(version, err, panic, latest, pType, source, qs) ==
  [version |-> version, err |-> err, panic |-> panic,
   latestFdkVersion |-> latest, pomType |-> pType, source |-> source,
   queries |-> [i \in DOMAIN qs |->
                  [url |-> qs[i].url, insecureSkipVerify |-> qs[i].insecureSkipVerify]],
   answers |-> [i \in DOMAIN qs |-> qs[i].resp]]

\* Variant: the override value is stored in the helper like a resolved one.
GetLatestFDKVersionResult_CachesOverride(latest, pType, envValue, r1, r2) ==
  LET f == getFDKLatestFromURL(r1, r2)
  IN  IF latest # "" THEN VersionResult(latest, NilErr, FALSE, latest, pType, "cache", <<>>)
      ELSE IF envValue # ""
        THEN VersionResult(envValue, NilErr, FALSE, envValue, "maven", "env", <<>>)
      ELSE IF f.panic THEN VersionResult("", NilErr, TRUE, latest, pType, "none", f.queries)
      ELSE IF f.err THEN VersionResult("", fetchError, FALSE, latest, pType, "none", f.queries)
      ELSE VersionResult(f.version, NilErr, FALSE, f.version, f.pType, "network", f.queries)

GetLatestFDKVersionResult(latest, pType, envValue, r1, r2) ==
  LET f == getFDKLatestFromURL(r1, r2)
  IN  IF latest # "" THEN VersionResult(latest, NilErr, FALSE, latest, pType, "cache", <<>>)
      ELSE IF envValue # "" THEN VersionResult(envValue, NilErr, FALSE, latest, pType, "env", <<>>)
      ELSE IF f.panic THEN VersionResult("", NilErr, TRUE, latest, pType, "none", f.queries)
      ELSE IF f.err THEN VersionResult("", fetchError, FALSE, latest, pType, "none", f.queries)
      ELSE VersionResult(f.version, NilErr, FALSE, f.version, f.pType, "network", f.queries)

\* ------------------------------------------------------------ filesystem
\* The project directory the process works on, and the place of a process
\* whose working directory is gone (os.Getwd fails there).
Dirs == {"/work/hello"}
NoDir == "(deleted)"

pomPath == "pom.xml"
mainDir == "src/main/java/com/example/fn"
mainFile == "src/main/java/com/example/fn/HelloFunction.java"
testDir == "src/test/java/com/example/fn"
testFile == "src/test/java/com/example/fn/HelloFunctionTest.java"
Paths == {pomPath, mainDir, mainFile, testDir, testFile}

\* The content of a file: the template it was made from and the values of
\* the template's three %s verbs, in order.
Content(template, a1, a2, a3) ==
  [template |-> template, fdkVersion |-> a1, source |-> a2, target |-> a3]
NoContent == Content("", "", "", "")
helloJavaSrcBoilerplate == Content("helloJavaSrcBoilerplate", "", "", "")
helloJavaTestBoilerplate == Content("helloJavaTestBoilerplate", "", "", "")
\* a pom.xml that was not generated by this helper
userPom == Content("user", "", "", "")
\* what a failed write may leave behind
truncated == Content("truncated", "", "", "")

Absent == [type |-> "absent", data |-> NoContent]
Dir == [type |-> "dir", data |-> NoContent]
File(data) == [type |-> "file", data |-> data]

EmptyDir == [p \in Paths |-> Absent]
UserProject == [EmptyDir EXCEPT ![pomPath] = File(userPom)]

\* exists(name): os.Stat finds something at name
exists(f, path) == f[path].type # "absent"

\* ----------------------------------------------------------- pomFileContent
\* Variant: the arguments fill the template's verbs in another order.
pomFileContent_SwapsArguments(APIversion, javaVersion, pType) ==
  IF pType = "maven"
    THEN Content("mavenPomFile", javaVersion, APIversion, APIversion)
    ELSE Content("bintrayPomFile", javaVersion, APIversion, APIversion)

\* Variant: the standard template whatever the source.
pomFileContent_AlwaysStandard(APIversion, javaVersion, pType) ==
  Content("mavenPomFile", APIversion, javaVersion, javaVersion)

pomFileContent(APIversion, javaVersion, pType) ==
  IF pType = "maven"
    THEN Content("mavenPomFile", APIversion, javaVersion, javaVersion)
    ELSE Content("bintrayPomFile", APIversion, javaVersion, javaVersion)

\* ------------------------------------------------- filesystem operations
\* fault names the path whose creation the filesystem refuses in this call
\* ("none": nothing fails); partial tells whether a refused file write
\* leaves a truncated file behind.
Faults ==
  {[at |-> "none", partial |-> FALSE]}
    \cup [at : Paths, partial : {FALSE}]
    \cup [at : {pomPath, mainFile, testFile}, partial : {TRUE}]
NoFault == [at |-> "none", partial |-> FALSE]

FsResult(f, err, writes) == [fs |-> f, err |-> err, writes |-> writes]

\* ioutil.WriteFile(path, data, 0644)
WriteFile(f, path, data, fault) ==
  IF f[path].type = "dir" THEN FsResult(f, ErrFs(path), <<>>)
  ELSE IF fault.at = path /\ fault.partial
    THEN FsResult([f EXCEPT ![path] = File(truncated)], ErrFs(path), <<path>>)
  ELSE IF fault.at = path THEN FsResult(f, ErrFs(path), <<>>)
  ELSE FsResult([f EXCEPT ![path] = File(data)], NilErr, <<path>>)

\* os.MkdirAll(path, 0755)
MkdirAll(f, path, fault) ==
  IF f[path].type = "dir" THEN FsResult(f, NilErr, <<>>)
  ELSE IF f[path].type = "file" THEN FsResult(f, ErrFs(path), <<>>)
  ELSE IF fault.at = path THEN FsResult(f, ErrFs(path), <<>>)
  ELSE FsResult([f EXCEPT ![path] = Dir], NilErr, <<path>>)

\* the closure mkDirAndWriteFile of GenerateBoilerplate
mkDirAndWriteFile(f, dir, filename, content, fault) ==
  LET m == MkdirAll(f, dir, fault)
      w == WriteFile(m.fs, filename, content, fault)
  IN  IF m.err # NilErr THEN m
      ELSE FsResult(w.fs, w.err, m.writes \o w.writes)


\* ---------------------------------------------------- GenerateBoilerplate
\* The result of h.GenerateBoilerplate(path) where f is the content of the
\* directory path and v the result of the call of h.GetLatestFDKVersion()
\* (made only when there is no pom.xml): the error, the directory and the
\* helper's fields afterwards, the queries made and the paths written, in
\* order.
BoilerplateResult(err, panic, f, v, writes) ==
  [err |-> err, panic |-> panic, fs |-> f, version |-> v.version,
   latestFdkVersion |-> v.latestFdkVersion, pomType |-> v.pomType,
   queries |-> v.queries, source |-> v.source, writes |-> writes]

\* Variant: no check for an existing pom.xml.
GenerateBoilerplateResult_Overwrites(f, javaVersion, v, fault) ==
  LET pom == WriteFile(f, pomPath, pomFileContent(v.version, javaVersion, v.pomType), fault)
      src == mkDirAndWriteFile(pom.fs, mainDir, mainFile, helloJavaSrcBoilerplate, fault)
      tst == mkDirAndWriteFile(src.fs, testDir, testFile, helloJavaTestBoilerplate, fault)
  IN  IF v.panic THEN BoilerplateResult(NilErr, TRUE, f, v, <<>>)
      ELSE IF v.err # NilErr THEN BoilerplateResult(v.err, FALSE, f, v, <<>>)
      ELSE IF pom.err # NilErr THEN BoilerplateResult(pom.err, FALSE, pom.fs, v, pom.writes)
      ELSE IF src.err # NilErr
        THEN BoilerplateResult(src.err, FALSE, src.fs, v, pom.writes \o src.writes)
      ELSE BoilerplateResult(tst.err, FALSE, tst.fs, v, pom.writes \o src.writes \o tst.writes)

\* Variant: the starter test is not written.
GenerateBoilerplateResult_SkipsTest(f, javaVersion, v, fault) ==
  LET pom == WriteFile(f, pomPath, pomFileContent(v.version, javaVersion, v.pomType), fault)
      src == mkDirAndWriteFile(pom.fs, mainDir, mainFile, helloJavaSrcBoilerplate, fault)
  IN  IF exists(f, pomPath) THEN BoilerplateResult(ErrBoilerplateExists, FALSE, f, v, <<>>)
      ELSE IF v.panic THEN BoilerplateResult(NilErr, TRUE, f, v, <<>>)
      ELSE IF v.err # NilErr THEN BoilerplateResult(v.err, FALSE, f, v, <<>>)
      ELSE IF pom.err # NilErr THEN BoilerplateResult(pom.err, FALSE, pom.fs, v, pom.writes)
      ELSE BoilerplateResult(src.err, FALSE, src.fs, v, pom.writes \o src.writes)

\* Variant: the starter files are written before the manifest.
GenerateBoilerplateResult_ManifestLast(f, javaVersion, v, fault) ==
  LET src == mkDirAndWriteFile(f, mainDir, mainFile, helloJavaSrcBoilerplate, fault)
      tst == mkDirAndWriteFile(src.fs, testDir, testFile, helloJavaTestBoilerplate, fault)
      pom == WriteFile(tst.fs, pomPath, pomFileContent(v.version, javaVersion, v.pomType), fault)
  IN  IF exists(f, pomPath) THEN BoilerplateResult(ErrBoilerplateExists, FALSE, f, v, <<>>)
      ELSE IF v.panic THEN BoilerplateResult(NilErr, TRUE, f, v, <<>>)
      ELSE IF v.err # NilErr THEN BoilerplateResult(v.err, FALSE, f, v, <<>>)
      ELSE IF src.err # NilErr THEN BoilerplateResult(src.err, FALSE, src.fs, v, src.writes)
      ELSE IF tst.err # NilErr
        THEN BoilerplateResult(tst.err, FALSE, tst.fs, v, src.writes \o tst.writes)
      ELSE BoilerplateResult(pom.err, FALSE, pom.fs, v, src.writes \o tst.writes \o pom.writes)

GenerateBoilerplateResult(f, javaVersion, v, fault) ==
  LET pom == WriteFile(f, pomPath, pomFileContent(v.version, javaVersion, v.pomType), fault)
      src == mkDirAndWriteFile(pom.fs, mainDir, mainFile, helloJavaSrcBoilerplate, fault)
      tst == mkDirAndWriteFile(src.fs, testDir, testFile, helloJavaTestBoilerplate, fault)
  IN  IF exists(f, pomPath) THEN BoilerplateResult(ErrBoilerplateExists, FALSE, f, v, <<>>)
      ELSE IF v.panic THEN BoilerplateResult(NilErr, TRUE, f, v, <<>>)
      ELSE IF v.err # NilErr THEN BoilerplateResult(v.err, FALSE, f, v, <<>>)
      ELSE IF pom.err # NilErr THEN BoilerplateResult(pom.err, FALSE, pom.fs, v, pom.writes)
      ELSE IF src.err # NilErr
        THEN BoilerplateResult(src.err, FALSE, src.fs, v, pom.writes \o src.writes)
      ELSE BoilerplateResult(tst.err, FALSE, tst.fs, v, pom.writes \o src.writes \o tst.writes)

\* ------------------------------------------------------------- PreBuild
\* The error of h.PreBuild() in working directory w of filesystem fsAll.
\* Variant: the check looks for the source directory instead of pom.xml.
PreBuildResult_WrongFile(fsAll, w) ==
  IF w \notin Dirs THEN ErrGetwd
  ELSE IF ~exists(fsAll[w], mainDir) THEN ErrNoPom
  ELSE NilErr

PreBuildResult(fsAll, w) ==
  IF w \notin Dirs THEN ErrGetwd
  ELSE IF ~exists(fsAll[w], pomPath) THEN ErrNoPom
  ELSE NilErr

\* ------------------------------------------- BuildFromImage, RunFromImage
\* An image reference is the pieces of its format: the repository with the
\* tag prefix, then the FDK version.  v is the result of the call of
\* h.GetLatestFDKVersion().
NoImage == <<>>
ImageResult(image, err, v) ==
  [image |-> image, err |-> err, panic |-> v.panic, version |-> v.version,
   latestFdkVersion |-> v.latestFdkVersion, pomType |-> v.pomType,
   queries |-> v.queries, source |-> v.source]

BuildFromImageResult(javaVersion, v) ==
  IF v.panic THEN ImageResult(NoImage, NilErr, v)
  ELSE IF v.err # NilErr THEN ImageResult(NoImage, v.err, v)
  ELSE IF javaVersion = "8"
    THEN ImageResult(<<"fnproject/fn-java-fdk-build:", v.version>>, NilErr, v)
  ELSE IF javaVersion = "11"
    THEN ImageResult(<<"fnproject/fn-java-fdk-build:jdk11-", v.version>>, NilErr, v)
  ELSE ImageResult(NoImage, ErrUnsupported(javaVersion), v)

RunFromImageResult(javaVersion, v) ==
  IF v.panic THEN ImageResult(NoImage, NilErr, v)
  ELSE IF v.err # NilErr THEN ImageResult(NoImage, v.err, v)
  ELSE IF javaVersion = "8"
    THEN ImageResult(<<"fnproject/fn-java-fdk:", v.version>>, NilErr, v)
  ELSE IF javaVersion = "11"
    THEN ImageResult(<<"fnproject/fn-java-fdk:jre11-", v.version>>, NilErr, v)
  ELSE ImageResult(NoImage, ErrUnsupported(javaVersion), v)

\* ------------------------------------------------ LangStrings, Extensions
\* The strings a user may type to select the helper, the canonical one
\* first (Runtime() is the first of them), and the file extensions that
\* select it.
LangStringsResult(javaVersion) == <<"java", "java" \o javaVersion>>
ExtensionsResult == <<".java">>

\* ------------------------------------------------------------- mavenOpts
\* What url.Parse makes of http_proxy or https_proxy: a URL with its host
\* name and port (both empty when the variable is unset) or an error.
ProxyURLs ==
  {[ok |-> TRUE, host |-> "", port |-> ""],
   [ok |-> TRUE, host |-> "proxy.example.com", port |-> "3128"],
   [ok |-> FALSE, host |-> "", port |-> ""]}
\* no_proxy as the list of its comma separated entries
NoProxyLists == {<<>>, <<"localhost", "127.0.0.1">>}
ProxyEnvs == [http : ProxyURLs, https : ProxyURLs, no_proxy : NoProxyLists]

\* strings.Replace(nonProxyHost, ",", "|", -1)
RECURSIVE ReplaceCommas(_)
ReplaceCommas(hosts) ==
  IF Len(hosts) = 0 THEN <<>>
  ELSE IF Len(hosts) = 1 THEN <<hosts[1]>>
  ELSE <<hosts[1], "|">> \o ReplaceCommas(Tail(hosts))

\* the pieces of the option string, in the order they are written
mavenOpts(p) ==
  (IF p.http.ok
     THEN <<"-Dhttp.proxyHost=", p.http.host, " ", "-Dhttp.proxyPort=", p.http.port, " ">>
     ELSE <<>>)
  \o (IF p.https.ok
        THEN <<"-Dhttps.proxyHost=", p.https.host, " ", "-Dhttps.proxyPort=", p.https.port, " ">>
        ELSE <<>>)
  \o <<"-Dhttp.nonProxyHosts=">> \o ReplaceCommas(p.no_proxy) \o <<" ">>
  \o <<"-Dmaven.repo.local=/usr/share/maven/ref/repository">>

\* --------------------------------------------------- DockerfileBuildCmds
\* A Dockerfile instruction: its keyword and its arguments (for RUN in exec
\* form, the elements of the JSON array).
Instruction(instr, args) == [instr |-> instr, args |-> args]

\* Variant: the dependency run is not told to continue past failures.
DockerfileBuildCmdsResult_FailFast(p) ==
  <<Instruction("ENV", <<"MAVEN_OPTS">> \o mavenOpts(p)),
    Instruction("ADD", <<"pom.xml", "/function/pom.xml">>),
    Instruction("RUN", <<"mvn", "package", "dependency:copy-dependencies",
                         "-DincludeScope=runtime", "-DskipTests=true",
                         "-Dmdep.prependGroupId=true", "-DoutputDirectory=target">>),
    Instruction("ADD", <<"src", "/function/src">>),
    Instruction("RUN", <<"mvn", "package">>)>>

DockerfileBuildCmdsResult(p) ==
  <<Instruction("ENV", <<"MAVEN_OPTS">> \o mavenOpts(p)),
    Instruction("ADD", <<"pom.xml", "/function/pom.xml">>),
    Instruction("RUN", <<"mvn", "package", "dependency:copy-dependencies",
                         "-DincludeScope=runtime", "-DskipTests=true",
                         "-Dmdep.prependGroupId=true", "-DoutputDirectory=target",
                         "--fail-never">>),
    Instruction("ADD", <<"src", "/function/src">>),
    Instruction("RUN", <<"mvn", "package">>)>>

\* ================================================= OCIAppClient.ListApp
\* An application as the service lists it (functions.ApplicationSummary) and
\* as the adapter returns it (App); k numbers the compartment's applications
\* in the order of the listing.
ApplicationSummary(k) == [DisplayName |-> <<"app-", k>>, Id |-> <<"ocid1.fnapp.", k>>]
App(name, id) == [Name |-> name, ID |-> id]

convertOCIAppsToAdapterApps(ociApps) ==
  [i \in DOMAIN ociApps |-> App(ociApps[i].DisplayName, ociApps[i].Id)]

\* The service: the sizes of the pages it splits the list into, and the page
\* whose request fails (0: none).
RECURSIVE SumSizes(_, _)
SumSizes(sizes, i) == IF i = 0 THEN 0 ELSE sizes[i] + SumSizes(sizes, i - 1)
PageItems(sizes, i) ==
  [j \in 1..sizes[i] |-> ApplicationSummary(SumSizes(sizes, i - 1) + j)]
PageSizes == UNION {[1..k -> 0..MaxPageSize] : k \in 1..MaxPages}
Services == {[sizes |-> z, failAt |-> f] : z \in PageSizes, f \in 0..MaxPages}

\* req.Page and resp.OpcNextPage: nil, or the token of a page
NoPage == 0
ErrService == <<"Service error:", "InternalServerError">>

\* a.client.ListApplications(ctx, req)
ListApplicationsResponse(service, page) ==
  LET i == IF page = NoPage THEN 1 ELSE page
  IN  IF service.failAt = i
        THEN [err |-> ErrService, Items |-> <<>>, OpcNextPage |-> NoPage]
        ELSE [err |-> NilErr, Items |-> PageItems(service.sizes, i),
              OpcNextPage |-> IF i < Len(service.sizes) THEN i + 1 ELSE NoPage]

\* A call of ListApp: where it is (pc), the flag n and the service it was
\* given, req.Page, resApps, the number of requests made and, once it has
\* returned, the applications and the error.
ListAppState(pc, n, service, page, resApps, requests, apps, err) ==
  [pc |-> pc, n |-> n, service |-> service, Page |-> page, resApps |-> resApps,
   requests |-> requests, apps |-> apps, err |-> err]
NoListApp ==
  ListAppState("idle", 0, [sizes |-> <<0>>, failAt |-> 0], NoPage, <<>>, 0, <<>>, NilErr)

\* ------------------------------------------------------------------ state
VARIABLES
  version,            \* h.version, the Java sub-version of the helper
  latestFdkVersion,   \* h.latestFdkVersion, "" while nothing is cached
  pomType,            \* h.pomType, "" until a registry answered
  env,                \* the value of FN_JAVA_FDK_VERSION, "" when unset
  fs,                 \* the content of each project directory
  wd,                 \* the working directory of the process
  crashed,            \* TRUE once a panic has ended the process
  last,               \* history: the last operation and what it returned
  wire,               \* history: the registries' answers to the last
                      \* direct call of GetLatestFDKVersion
  netResolved,        \* history: the first version a registry resolved
  firstBuild,         \* history: the FDK tag of the first image that
                      \* BuildFromImage returned
  listApp             \* the call of OCIAppClient.ListApp in progress, with
                      \* the service it talks to

\* the helper with its environment and history
helperVars ==
  <<version, latestFdkVersion, pomType, env, fs, wd, crashed, last, wire, netResolved,
    firstBuild>>
vars == <<helperVars, listApp>>

\* The record of one operation: what it returned (version, image, err,
\* panic), what it did (queries, writes), where the version came from, the
\* directory it was given, the filesystem fault it met and, from before the
\* operation, the helper's fields, the first resolution and whether the
\* directory had a pom.xml.  out is the list an accessor returned.
Call(op, dir, fault, r, image, writes) ==
  [op |-> op, dir |-> dir, fault |-> fault, version |-> r.version, image |-> image,
   err |-> r.err, panic |-> r.panic, queries |-> r.queries, source |-> r.source,
   writes |-> writes, out |-> <<>>,
   pre |-> [latestFdkVersion |-> latestFdkVersion, pomType |-> pomType,
            resolved |-> netResolved,
            hadPom |-> dir \in Dirs /\ exists(fs[dir], pomPath)]]
\* the result of an operation that does not ask for the version
Quiet(err) == VersionResult("", err, FALSE, latestFdkVersion, pomType, "none", <<>>)

\* The first successful resolution by a registry is remembered.
NoteResolved(r) ==
  IF ~netResolved.done /\ ~r.panic /\ r.err = NilErr /\ r.source = "network"
    THEN [done |-> TRUE, version |-> r.version]
    ELSE netResolved

\* The tag of the first image BuildFromImage returns is remembered.
NoteBuilt(r) ==
  IF ~firstBuild.done /\ ~r.panic /\ r.image # NoImage
    THEN [done |-> TRUE, tag |-> r.image[2]]
    ELSE firstBuild

Init ==
  /\ version \in JavaVersions
  /\ latestFdkVersion = ""
  /\ pomType = ""
  /\ env \in Versions \cup {""}
  /\ fs \in [Dirs -> {EmptyDir, UserProject}]
  /\ wd \in Dirs \cup {NoDir}
  /\ crashed = FALSE
  /\ netResolved = [done |-> FALSE, version |-> ""]
  /\ last = Call("start", NoDir, NoFault, Quiet(NilErr), NoImage, <<>>)
  /\ wire = <<>>
  /\ firstBuild = [done |-> FALSE, tag |-> ""]
  /\ listApp = NoListApp

\* ---------------------------------------------------------------- inputs
\* The primary registry is asked when nothing is cached and the override is
\* unset, the secondary one when the primary's answer was no version.  A
\* registry that is not asked gives no answer: its input is then fixed.
Unasked == [kind |-> "transport", status |-> 0, readOk |-> FALSE, body |-> TextBody]
PrimaryAnswers ==
  IF latestFdkVersion = "" /\ env = "" THEN PrimaryResponses ELSE {Unasked}
SecondaryAnswers(r1) ==
  IF latestFdkVersion = "" /\ env = "" /\ Len(getFDKLatestFromURL(r1, Unasked).queries) = 2
    THEN SecondaryResponses ELSE {Unasked}

\* What a call of h.GetLatestFDKVersion() made inside another method can
\* return in the current state, over all answers of the registries.
VersionOutcomes ==
  UNION {{[GetLatestFDKVersionResult(latestFdkVersion, pomType, env, r1, r2)
             EXCEPT !.answers = <<>>] : r2 \in SecondaryAnswers(r1)} : r1 \in PrimaryAnswers}

\* ---------------------------------------------------------------- actions
GetLatestFDKVersion ==
  /\ ~crashed
  /\ \E r1 \in PrimaryAnswers : \E r2 \in SecondaryAnswers(r1) :
       LET r == GetLatestFDKVersionResult(latestFdkVersion, pomType, env, r1, r2)
       IN  /\ latestFdkVersion' = r.latestFdkVersion
           /\ pomType' = r.pomType
           /\ crashed' = r.panic
           /\ last' = Call("GetLatestFDKVersion", NoDir, NoFault, r, NoImage, <<>>)
           /\ wire' = r.answers
           /\ netResolved' = NoteResolved(r)
  /\ UNCHANGED <<listApp, firstBuild, version, env, fs, wd>>

BuildFromImage ==
  /\ ~crashed
  /\ \E v \in VersionOutcomes :
       LET r == BuildFromImageResult(version, v)
       IN  /\ latestFdkVersion' = r.latestFdkVersion
           /\ pomType' = r.pomType
           /\ crashed' = r.panic
           /\ last' = Call("BuildFromImage", NoDir, NoFault, r, r.image, <<>>)
           /\ netResolved' = NoteResolved(r)
           /\ firstBuild' = NoteBuilt(r)
  /\ wire' = <<>>
  /\ UNCHANGED <<listApp, version, env, fs, wd>>

RunFromImage ==
  /\ ~crashed
  /\ \E v \in VersionOutcomes :
       LET r == RunFromImageResult(version, v)
       IN  /\ latestFdkVersion' = r.latestFdkVersion
           /\ pomType' = r.pomType
           /\ crashed' = r.panic
           /\ last' = Call("RunFromImage", NoDir, NoFault, r, r.image, <<>>)
           /\ netResolved' = NoteResolved(r)
  /\ wire' = <<>>
  /\ UNCHANGED <<listApp, firstBuild, version, env, fs, wd>>

\* With a pom.xml in place the version is not asked for and nothing is
\* written, so no registry answers and no write fails.
GenerateBoilerplate ==
  /\ ~crashed
  /\ \E path \in Dirs :
     \E v \in IF exists(fs[path], pomPath) THEN {Quiet(NilErr)} ELSE VersionOutcomes :
     \E fault \in IF exists(fs[path], pomPath) THEN {NoFault} ELSE Faults :
       LET r == GenerateBoilerplateResult(fs[path], version, v, fault)
       IN  /\ latestFdkVersion' = r.latestFdkVersion
           /\ pomType' = r.pomType
           /\ crashed' = r.panic
           /\ fs' = [fs EXCEPT ![path] = r.fs]
           /\ last' = Call("GenerateBoilerplate", path, fault, r, NoImage, r.writes)
           /\ netResolved' = NoteResolved(r)
  /\ wire' = <<>>
  /\ UNCHANGED <<listApp, firstBuild, version, env, wd>>

PreBuild ==
  /\ ~crashed
  /\ last' = Call("PreBuild", wd, NoFault, Quiet(PreBuildResult(fs, wd)), NoImage, <<>>)
  /\ wire' = <<>>
  /\ UNCHANGED <<listApp, firstBuild, version, latestFdkVersion, pomType, env, fs, wd,
               crashed, netResolved>>

\* The accessors change nothing in the helper.
LangStrings ==
  /\ ~crashed
  /\ last' = [Call("LangStrings", NoDir, NoFault, Quiet(NilErr), NoImage, <<>>)
                EXCEPT !.out = LangStringsResult(version)]
  /\ wire' = <<>>
  /\ UNCHANGED <<listApp, firstBuild, version, latestFdkVersion, pomType, env, fs, wd,
               crashed, netResolved>>

Extensions ==
  /\ ~crashed
  /\ last' = [Call("Extensions", NoDir, NoFault, Quiet(NilErr), NoImage, <<>>)
                EXCEPT !.out = ExtensionsResult]
  /\ wire' = <<>>
  /\ UNCHANGED <<listApp, firstBuild, version, latestFdkVersion, pomType, env, fs, wd,
               crashed, netResolved>>

\* p is what the proxy variables of the environment hold at the call.
DockerfileBuildCmds ==
  /\ ~crashed
  /\ \E p \in ProxyEnvs :
       last' = [Call("DockerfileBuildCmds", NoDir, NoFault, Quiet(NilErr), NoImage, <<>>)
                  EXCEPT !.out = DockerfileBuildCmdsResult(p)]
  /\ wire' = <<>>
  /\ UNCHANGED <<listApp, firstBuild, version, latestFdkVersion, pomType, env, fs, wd,
               crashed, netResolved>>

\* The environment of the process sets or clears the override variable.
Setenv ==
  /\ ~crashed
  /\ \E v \in Versions \cup {""} :
       /\ v # env
       /\ env' = v
  /\ last' = Call("Setenv", NoDir, NoFault, Quiet(NilErr), NoImage, <<>>)
  /\ wire' = <<>>
  /\ UNCHANGED <<listApp, firstBuild, version, latestFdkVersion, pomType, fs, wd,
               crashed, netResolved>>

\* ListApp is entered: req has no page and resApps is nil.
ListApp ==
  /\ listApp.pc \in {"idle", "done"}
  /\ \E n \in 0..MaxLimit : \E service \in Services :
       /\ service.failAt <= Len(service.sizes)
       /\ listApp' = ListAppState("request", n, service, NoPage, <<>>, 0, <<>>, NilErr)
  /\ UNCHANGED helperVars

\* One turn of the loop of ListApp: the request, the append, the test of
\* howManyMore and, when the loop is left, the return.
ListApplications ==
  /\ listApp.pc = "request"
  /\ LET resp == ListApplicationsResponse(listApp.service, listApp.Page)
         adapterApps == convertOCIAppsToAdapterApps(resp.Items)
         resApps == listApp.resApps \o adapterApps
         howManyMore == listApp.n - (Len(resApps) + Len(resp.Items))
     IN  IF resp.err # NilErr
           THEN listApp' = [listApp EXCEPT !.pc = "done", !.requests = @ + 1,
                                           !.apps = <<>>, !.err = resp.err]
         ELSE IF howManyMore <= 0 \/ resp.OpcNextPage = NoPage
           THEN listApp' = [listApp EXCEPT !.pc = "done", !.requests = @ + 1,
                                           !.resApps = resApps, !.apps = resApps,
                                           !.err = NilErr]
         ELSE listApp' = [listApp EXCEPT !.requests = @ + 1, !.resApps = resApps,
                                         !.Page = resp.OpcNextPage]
  /\ UNCHANGED helperVars

\* -------------------------------------------------------- specifications
\* The helper with every operation.
Next ==
  \/ GetLatestFDKVersion
  \/ BuildFromImage
  \/ RunFromImage
  \/ GenerateBoilerplate
  \/ PreBuild
  \/ LangStrings
  \/ Extensions
  \/ DockerfileBuildCmds
  \/ Setenv
  \/ ListApp
  \/ ListApplications

Spec == Init /\ [][Next]_vars

\* Version resolution: the calls of GetLatestFDKVersion of one process,
\* with the registries' answers on record, while the override variable
\* changes.  GetLatestFDKVersion reads neither h.version nor the filesystem
\* nor the working directory, and nothing here changes them: they start at
\* one value.
InitResolver ==
  /\ Init
  /\ version = "11"
  /\ fs = [d \in Dirs |-> EmptyDir]
  /\ wd \in Dirs

NextResolver ==
  \/ GetLatestFDKVersion
  \/ Setenv

SpecResolver == InitResolver /\ [][NextResolver]_vars

\* Project scaffolding: the calls of GenerateBoilerplate and PreBuild of one
\* process, which resolve the version as part of GenerateBoilerplate, while
\* the override variable changes.
NextProject ==
  \/ GenerateBoilerplate
  \/ PreBuild
  \/ Setenv

SpecProject == Init /\ [][NextProject]_vars

\* Image description: what the CLI asks of a helper to build and run a
\* function image, the identity strings, the images (which resolve the
\* version) and the build-stage instructions, while the override variable
\* changes.  None of these calls touches the filesystem or the working
\* directory: they start at one value.
InitImages ==
  /\ Init
  /\ fs = [d \in Dirs |-> EmptyDir]
  /\ wd \in Dirs

NextImages ==
  \/ BuildFromImage
  \/ RunFromImage
  \/ LangStrings
  \/ Extensions
  \/ DockerfileBuildCmds
  \/ Setenv

SpecImages == InitImages /\ [][NextImages]_vars

\* Listing applications: the calls of ListApp of one process, request by
\* request, against services with every page layout.  The language helper
\* takes no part: it stays as constructed.
InitListApp ==
  /\ Init
  /\ version = "11"
  /\ env = ""
  /\ fs = [d \in Dirs |-> EmptyDir]
  /\ wd \in Dirs

NextListApp ==
  \/ ListApp
  \/ ListApplications

SpecListApp == InitListApp /\ [][NextListApp]_vars

\* ================================================================ claims
\* ------------------------------------------- what the registries answered
\* client.Get returned an error
TransportError(r) == r.kind \in {"transport", "redirect"}
\* the body could not be read
ReadError(r) == r.kind = "http" /\ r.status = StatusOK /\ ~r.readOk
BadStatus(r) == r.kind = "http" /\ r.status # StatusOK
Non2xx(r) == r.kind = "http" /\ r.status \notin 200..299
Delivered(r) == r.kind = "http" /\ r.status = StatusOK /\ r.readOk
\* a metadata document with at least one version entry
WellFormedPrimary(r) == Delivered(r) /\ r.body.fmt = "xml" /\ r.body.versions >= 1
\* a JSON array of objects with a first element
WellFormedSecondary(r) ==
  /\ Delivered(r)
  /\ r.body.fmt = "json"
  /\ r.body.top = "array"
  /\ Len(r.body.items) >= 1
  /\ \A i \in 1..Len(r.body.items) : r.body.items[i].kind = "object"
\* a JSON array whose first element carries a latest_version
HasFirstVersion(r) ==
  /\ Delivered(r)
  /\ r.body.fmt = "json"
  /\ r.body.top = "array"
  /\ Len(r.body.items) >= 1
  /\ r.body.items[1].kind = "object"
  /\ r.body.items[1].latest_version # ""
\* the three failure kinds of a registry
FailedPrimary(r) ==
  TransportError(r) \/ ReadError(r) \/ Non2xx(r) \/ (Delivered(r) /\ ~WellFormedPrimary(r))
FailedSecondary(r) ==
  TransportError(r) \/ ReadError(r) \/ Non2xx(r) \/ (Delivered(r) /\ ~WellFormedSecondary(r))

\* The last operation was a call of GetLatestFDKVersion.  wire holds the
\* answers it got, the primary's first; a registry that was not asked has
\* no answer on record and may answer anything.
Resolving == last.op = "GetLatestFDKVersion"
SecondaryAsked == \E i \in DOMAIN last.queries : last.queries[i].url = bintrayVersionURL

\* C1: whenever FN_JAVA_FDK_VERSION holds a non-empty value V at a call,
\* GetLatestFDKVersion returns V with no error, whatever the registries do
\* and whatever was called before.
C1_OverrideAlwaysWins ==
  (Resolving /\ env # "") =>
    (~last.panic /\ last.err = NilErr /\ last.version = env)

\* C2: with the override unset and nothing cached, if every registry fails by
\* a transport error or a status other than 200, GetLatestFDKVersion returns
\* an error that names FN_JAVA_FDK_VERSION and no version, and the cached
\* version and source stay as they were (unset).
C2_BothRegistriesFail ==
  (/\ Resolving
   /\ env = ""
   /\ last.pre.latestFdkVersion = ""
   /\ Len(wire) >= 1
   /\ \A i \in 1..Len(wire) : TransportError(wire[i]) \/ BadStatus(wire[i]))
  => (/\ ~last.panic
      /\ last.err # NilErr
      /\ Mentions(last.err, versionEnv)
      /\ last.version = ""
      /\ latestFdkVersion = ""
      /\ pomType = last.pre.pomType)

\* C3: a failure of the primary registry of any of the three kinds
\* (transport error, non-2xx status, malformed body) advances to the
\* secondary registry, and a failure of the secondary registry of any kind
\* after that makes the resolution fail with an error; a secondary answer
\* that cannot be parsed never gives a successful resolution.
C3_FailureKindsAlike ==
  (Resolving /\ Len(wire) >= 1 /\ FailedPrimary(wire[1])) =>
    (/\ Len(wire) = 2
     /\ SecondaryAsked
     /\ FailedSecondary(wire[2]) => (~last.panic /\ last.err # NilErr))

\* C4: if the primary registry is unreachable (transport error or non-2xx
\* status) and the secondary registry answers a JSON array whose first
\* element has latest_version X, the resolution succeeds with X and the
\* helper records the secondary source.
C4_SecondaryFallback ==
  (/\ Resolving
   /\ Len(wire) >= 1
   /\ TransportError(wire[1]) \/ Non2xx(wire[1])
   /\ Len(wire) = 2 => HasFirstVersion(wire[2]))
  => (/\ Len(wire) = 2
      /\ ~last.panic
      /\ last.err = NilErr
      /\ last.version = wire[2].body.items[1].latest_version
      /\ latestFdkVersion = last.version
      /\ pomType = "bintray")

\* C5: if the primary registry answers with status 200 and a well-formed
\* document with at least one version entry, the secondary registry is not
\* queried in that resolution and the result is the document's latest value
\* tagged with the primary source.
C5_PrimaryShortCircuits ==
  (Resolving /\ Len(wire) >= 1 /\ WellFormedPrimary(wire[1])) =>
    (/\ ~SecondaryAsked
     /\ Len(last.queries) = 1
     /\ ~last.panic
     /\ last.err = NilErr
     /\ last.version = wire[1].body.latest
     /\ pomType = "maven")

C5_Witness ==
  /\ Resolving
  /\ Len(wire) = 1
  /\ WellFormedPrimary(wire[1])
  /\ last.version \in Versions
  /\ last.version = wire[1].body.latest
  /\ pomType = "maven"

\* C6: after GetLatestFDKVersion has succeeded once through a resolution by
\* a registry, every later call with the override unset returns the same
\* version and queries neither registry.
C6_ResolvedOnce ==
  (Resolving /\ env = "" /\ last.pre.resolved.done) =>
    (/\ ~last.panic
     /\ last.err = NilErr
     /\ last.version = last.pre.resolved.version
     /\ last.queries = <<>>)

\* C7: with the override set and nothing cached, a call of
\* GetLatestFDKVersion queries no registry and leaves h.latestFdkVersion and
\* h.pomType as they were.
C7_OverrideLeavesCache ==
  (Resolving /\ env # "" /\ last.pre.latestFdkVersion = "") =>
    (/\ last.queries = <<>>
     /\ wire = <<>>
     /\ latestFdkVersion = last.pre.latestFdkVersion
     /\ pomType = last.pre.pomType)

C7_Witness ==
  /\ Resolving
  /\ env # ""
  /\ last.pre.latestFdkVersion = ""
  /\ last.version = env
  /\ latestFdkVersion = ""

\* C8: GenerateBoilerplate on a directory that has a pom.xml returns
\* ErrBoilerplateExists and writes nothing: the directory, the existing
\* pom.xml included, is afterwards what it was before.
C8_ExistingManifestUntouched ==
  [][(last'.op = "GenerateBoilerplate" /\ exists(fs[last'.dir], pomPath)) =>
       (/\ last'.err = ErrBoilerplateExists
        /\ ~last'.panic
        /\ last'.writes = <<>>
        /\ fs' = fs)]_vars

C8_Witness ==
  /\ last.op = "GenerateBoilerplate"
  /\ last.pre.hadPom
  /\ last.err = ErrBoilerplateExists
  /\ fs[last.dir][pomPath] = File(userPom)

\* The three files GenerateBoilerplate makes are in directory f.
Generated(f) ==
  /\ f[pomPath].type = "file"
  /\ f[pomPath].data.template \in {"mavenPomFile", "bintrayPomFile"}
  /\ f[mainFile] = File(helloJavaSrcBoilerplate)
  /\ f[testFile] = File(helloJavaTestBoilerplate)

\* C9: GenerateBoilerplate on a directory without pom.xml, with a version
\* that resolves and no failing write, returns no error and leaves pom.xml,
\* HelloFunction.java and HelloFunctionTest.java in the directory; PreBuild
\* with such a directory as the working directory returns no error.
C9_CleanDirectoryScaffold ==
  /\ (/\ last.op = "GenerateBoilerplate"
      /\ ~last.pre.hadPom
      /\ last.source # "none"
      /\ last.fault = NoFault)
     => (/\ last.err = NilErr
         /\ ~last.panic
         /\ Generated(fs[last.dir])
         /\ fs[last.dir][pomPath] = File(pomFileContent(last.version, version, pomType))
         /\ last.writes = <<pomPath, mainDir, mainFile, testDir, testFile>>)
  /\ (last.op = "PreBuild" /\ wd \in Dirs /\ Generated(fs[wd])) => last.err = NilErr

C9_Witness ==
  /\ last.op = "PreBuild"
  /\ wd \in Dirs
  /\ Generated(fs[wd])
  /\ fs[wd][pomPath].data.fdkVersion \in Versions
  /\ last.err = NilErr

\* C10: in a working directory, PreBuild returns an error whose message
\* contains "pom.xml" exactly when the directory has no pom.xml, returns no
\* error when it has one, and writes nothing.
C10_PreBuildNamesManifest ==
  (last.op = "PreBuild" /\ wd \in Dirs) =>
    (/\ Mentions(last.err, "pom.xml") <=> ~exists(fs[wd], pomPath)
     /\ exists(fs[wd], pomPath) => last.err = NilErr
     /\ last.writes = <<>>)

C10_Witness ==
  /\ last.op = "PreBuild"
  /\ wd \in Dirs
  /\ ~exists(fs[wd], pomPath)
  /\ last.err # NilErr
  /\ Mentions(last.err, "pom.xml")

\* ------------------------------------------------ the manifest just written
\* The last operation was a GenerateBoilerplate that found no pom.xml, got a
\* version and wrote the manifest in full.
PomWritten ==
  /\ last.op = "GenerateBoilerplate"
  /\ ~last.pre.hadPom
  /\ ~last.panic
  /\ last.source # "none"
  /\ last.fault.at # pomPath
\* the fdk.version property of a generated manifest: both templates have
\* their first verb between <fdk.version> and </fdk.version>
FdkVersionProperty(file) == file.data.fdkVersion
\* the manifest with the <repositories> element
DeclaresCustomRepository(file) == file.data.template = "bintrayPomFile"
StandardManifest(file) == file.data.template = "mavenPomFile"

\* C11: the pom.xml that GenerateBoilerplate writes has as its fdk.version
\* property exactly the version its call of GetLatestFDKVersion returned,
\* be it the cached one, the override, or a registry's, and under either
\* template.
C11_VersionRoundTrip ==
  PomWritten =>
    (/\ fs[last.dir][pomPath].type = "file"
     /\ StandardManifest(fs[last.dir][pomPath]) \/ DeclaresCustomRepository(fs[last.dir][pomPath])
     /\ FdkVersionProperty(fs[last.dir][pomPath]) = last.version
     /\ last.source = "cache" => last.version = last.pre.latestFdkVersion
     /\ last.source = "env" => last.version = env
     /\ last.source = "network" => last.version = latestFdkVersion)

C11_Witness ==
  /\ PomWritten
  /\ last.source = "cache"
  /\ last.version \in Versions
  /\ DeclaresCustomRepository(fs[last.dir][pomPath])
  /\ FdkVersionProperty(fs[last.dir][pomPath]) = last.version

\* where the version of the last operation was resolved
ResolvedFromPrimary ==
  \/ last.source = "network" /\ Len(last.queries) = 1
  \/ last.source = "cache" /\ last.pre.pomType = "maven"
ResolvedFromSecondary ==
  \/ last.source = "network" /\ Len(last.queries) = 2
  \/ last.source = "cache" /\ last.pre.pomType = "bintray"

\* C12: GenerateBoilerplate writes the standard manifest when the version
\* was resolved from the primary registry, and the manifest that declares
\* the custom repository when it was resolved from the secondary registry.
C12_SourceSelectsTemplate ==
  PomWritten =>
    (/\ ResolvedFromPrimary => StandardManifest(fs[last.dir][pomPath])
     /\ ResolvedFromSecondary => DeclaresCustomRepository(fs[last.dir][pomPath]))

C12_Witness ==
  /\ PomWritten
  /\ last.source = "network"
  /\ Len(last.queries) = 2
  /\ pomType = "bintray"
  /\ last.version \in Versions
  /\ DeclaresCustomRepository(fs[last.dir][pomPath])
  /\ last.err = NilErr

\* C13: BuildFromImage and RunFromImage call GetLatestFDKVersion first.
\* When the resolution fails they return the resolution error and no image;
\* when it gives a version and h.version is neither "8" nor "11" they return
\* the unsupported version error; otherwise they return an image tagged with
\* the version.  In every state the two fail and succeed alike, with the
\* same error.
C13_ImagesResolveFirst ==
  /\ last.op \in {"BuildFromImage", "RunFromImage"} =>
       (/\ ~last.panic
        /\ last.source = "none" => (last.err = fetchError /\ last.image = NoImage)
        /\ (last.source # "none" /\ version \notin {"8", "11"}) =>
             (last.err = ErrUnsupported(version) /\ last.image = NoImage)
        /\ (last.source # "none" /\ version \in {"8", "11"}) =>
             (last.err = NilErr /\ Len(last.image) = 2 /\ last.image[2] = last.version))
  /\ ~crashed =>
       \A v \in VersionOutcomes :
         LET b == BuildFromImageResult(version, v)
             r == RunFromImageResult(version, v)
         IN  /\ b.err = r.err
             /\ b.panic = r.panic
             /\ (b.image = NoImage) <=> (r.image = NoImage)
             /\ b.queries = r.queries
             /\ b.latestFdkVersion = r.latestFdkVersion
             /\ b.pomType = r.pomType

\* the order in which GenerateBoilerplate creates things
WriteOrder == <<pomPath, mainDir, mainFile, testDir, testFile>>
Position(path) == CHOOSE i \in 1..Len(WriteOrder) : WriteOrder[i] = path
\* The last operation was a GenerateBoilerplate that wrote the manifest and
\* then met a failing mkdir or file write.
FailedAfterManifest ==
  /\ PomWritten
  /\ last.fault.at \in {mainDir, mainFile, testDir, testFile}

\* C14: GenerateBoilerplate writes the manifest first.  When a later mkdir
\* or write fails it returns that error and writes nothing more, what it
\* wrote before stays, and another GenerateBoilerplate on the directory
\* returns ErrBoilerplateExists.
C14_StopsAtFirstFailedWrite ==
  /\ (last.op = "GenerateBoilerplate" /\ last.writes # <<>>) => last.writes[1] = pomPath
  /\ FailedAfterManifest =>
       LET k == Position(last.fault.at)
           n == IF last.fault.partial THEN k ELSE k - 1
       IN  /\ last.err = ErrFs(last.fault.at)
           /\ last.writes = SubSeq(WriteOrder, 1, n)
           /\ \A i \in 1..(k - 1) : exists(fs[last.dir], WriteOrder[i])
           /\ \A i \in (k + 1)..Len(WriteOrder) : ~exists(fs[last.dir], WriteOrder[i])
           /\ fs[last.dir][pomPath] = File(pomFileContent(last.version, version, pomType))
           /\ \A v \in VersionOutcomes : \A fault \in Faults :
                LET again == GenerateBoilerplateResult(fs[last.dir], version, v, fault)
                IN  again.err = ErrBoilerplateExists /\ again.fs = fs[last.dir]
  /\ (last.op = "GenerateBoilerplate" /\ last.pre.hadPom) => last.err = ErrBoilerplateExists

\* the call after a failure at the test directory
C14_Witness ==
  /\ last.op = "GenerateBoilerplate"
  /\ last.pre.hadPom
  /\ last.err = ErrBoilerplateExists
  /\ StandardManifest(fs[last.dir][pomPath])
  /\ fs[last.dir][mainFile] = File(helloJavaSrcBoilerplate)
  /\ ~exists(fs[last.dir], testDir)
  /\ ~exists(fs[last.dir], testFile)

\* C15: starting from the unresolved state, the pair of h.latestFdkVersion
\* and h.pomType changes its value at most once: once it has left its
\* initial value no call changes it again.
C15_CacheWrittenOnce ==
  [][<<latestFdkVersion, pomType>> # <<"", "">> =>
       <<latestFdkVersion', pomType'>> = <<latestFdkVersion, pomType>>]_vars

\* the elements of a list
Range(list) == {list[i] : i \in DOMAIN list}
\* the Java helpers of one registry
RegisteredJava == {"8", "11"}

\* C16: the identity strings of a registered Java helper are claimed by no
\* other registered helper, the Java helper for the other sub-version
\* included, and neither are its file extensions.
C16_IdentityStringsUnique ==
  /\ (last.op = "LangStrings" /\ version \in RegisteredJava) =>
       \A other \in RegisteredJava \ {version} :
         Range(last.out) \cap Range(LangStringsResult(other)) = {}
  /\ (last.op = "Extensions" /\ version \in RegisteredJava) =>
       \A other \in RegisteredJava \ {version} :
         Range(last.out) \cap Range(ExtensionsResult) = {}

\* ------------------------------------------------ running the build stage
\* A RUN of mvn with --fail-never exits with success whatever its goals do.
Tolerant(cmd) == cmd.instr = "RUN" /\ "--fail-never" \in Range(cmd.args)
RunSteps(cmds) == {i \in DOMAIN cmds : cmds[i].instr = "RUN"}
\* The container build executes the instructions in order and stops at the
\* first one that exits with failure; failing is the set of steps whose
\* command meets a failure.
Aborts(cmds, failing, i) == i \in failing /\ ~Tolerant(cmds[i])
Executed(cmds, failing) ==
  {i \in DOMAIN cmds : \A j \in 1..(i - 1) : ~Aborts(cmds, failing, j)}
BuildAborted(cmds, failing) ==
  \E i \in Executed(cmds, failing) : Aborts(cmds, failing, i)

\* C17: the build-stage instructions are, in order, the Maven environment,
\* the copy of pom.xml, the dependency run, the copy of src and the compile
\* run.  Only the dependency run has --fail-never: a build whose dependency
\* run fails still executes the compile run, and a failing compile run
\* aborts the build.
C17_BuildStageOrder ==
  last.op = "DockerfileBuildCmds" =>
    LET cmds == last.out
    IN  /\ Len(cmds) = 5
        /\ cmds[1].instr = "ENV" /\ cmds[1].args[1] = "MAVEN_OPTS"
        /\ "-Dmaven.repo.local=/usr/share/maven/ref/repository" \in Range(cmds[1].args)
        /\ "-Dhttp.nonProxyHosts=" \in Range(cmds[1].args)
        /\ cmds[2] = Instruction("ADD", <<"pom.xml", "/function/pom.xml">>)
        /\ cmds[3].instr = "RUN"
        /\ cmds[3].args[1] = "mvn"
        /\ "dependency:copy-dependencies" \in Range(cmds[3].args)
        /\ cmds[4] = Instruction("ADD", <<"src", "/function/src">>)
        /\ cmds[5] = Instruction("RUN", <<"mvn", "package">>)
        /\ \A i \in DOMAIN cmds : Tolerant(cmds[i]) <=> i = 3
        /\ \A failing \in SUBSET RunSteps(cmds) :
             /\ 5 \notin failing => (5 \in Executed(cmds, failing) /\ ~BuildAborted(cmds, failing))
             /\ 5 \in failing => (5 \in Executed(cmds, failing) /\ BuildAborted(cmds, failing))

C17_Witness ==
  /\ last.op = "DockerfileBuildCmds"
  /\ "proxy.example.com" \in Range(last.out[1].args)
  /\ "|" \in Range(last.out[1].args)
  /\ Tolerant(last.out[3])
  /\ 5 \in Executed(last.out, {3})
  /\ BuildAborted(last.out, {3, 5})

\* C18: one call of GetLatestFDKVersion queries the primary registry at most
\* once and first, the secondary registry at most once and only after the
\* primary's answer gave no version, and nothing after an answer that gave
\* one.
C18_StrictOrderNoRetry ==
  /\ Len(last.queries) <= 2
  /\ Len(last.queries) >= 1 => last.queries[1].url = mavenVersionUrl
  /\ Len(last.queries) = 2 => last.queries[2].url = bintrayVersionURL
  /\ Resolving =>
       (/\ Len(wire) = Len(last.queries)
        /\ Len(wire) = 2 => ~WellFormedPrimary(wire[1])
        /\ (Len(wire) >= 1 /\ WellFormedPrimary(wire[1])) => Len(wire) = 1
        /\ (last.pre.latestFdkVersion # "" \/ env # "") => wire = <<>>)

C18_Witness ==
  /\ Resolving
  /\ Len(last.queries) = 2
  /\ Len(wire) = 2
  /\ BadStatus(wire[1])
  /\ HasFirstVersion(wire[2])
  /\ last.version \in Versions
  /\ last.err = NilErr

\* C19: every query of the primary registry is made with certificate
\* verification on; it is off for queries of the secondary registry only.
C19_InsecureOnlySecondary ==
  \A i \in DOMAIN last.queries :
    /\ last.queries[i].url = mavenVersionUrl => ~last.queries[i].insecureSkipVerify
    /\ last.queries[i].insecureSkipVerify => last.queries[i].url = bintrayVersionURL

C19_Witness ==
  /\ Resolving
  /\ Len(last.queries) = 2
  /\ last.queries[1] = [url |-> mavenVersionUrl, insecureSkipVerify |-> FALSE]
  /\ last.queries[2] = [url |-> bintrayVersionURL, insecureSkipVerify |-> TRUE]
  /\ TransportError(wire[1]) \/ Delivered(wire[1])

\* C20: when GetLatestFDKVersion returns no error the version it returns is
\* not empty, whatever the registries answered, and so no image reference
\* of BuildFromImage or RunFromImage has an empty version in its tag.
C20_NoEmptyVersion ==
  (/\ last.op \in {"GetLatestFDKVersion", "BuildFromImage", "RunFromImage"}
   /\ ~last.panic
   /\ last.source # "none")
  => (/\ last.version # ""
      /\ last.image # NoImage => last.image[2] # "")

\* C21: GenerateBoilerplate writes the manifest that declares the custom
\* repository only when the version it embeds was resolved from the
\* secondary registry; with the version taken from the override on a helper
\* without a cached source it writes the standard manifest.
C21_CustomRepositoryOnlyFromSecondary ==
  PomWritten =>
    (/\ DeclaresCustomRepository(fs[last.dir][pomPath]) => ResolvedFromSecondary
     /\ (last.source = "env" /\ last.pre.pomType = "") =>
          StandardManifest(fs[last.dir][pomPath]))

\* The last operation was a GenerateBoilerplate without pom.xml, cached
\* version and override, in which the primary registry gave no version, the
\* secondary registry was asked and gave none either.
ResolutionFailedInside ==
  /\ last.op = "GenerateBoilerplate"
  /\ ~last.pre.hadPom
  /\ last.pre.latestFdkVersion = ""
  /\ env = ""
  /\ Len(last.queries) = 2
  /\ last.panic \/ last.source = "none" \/ (last.source = "network" /\ pomType = "")

\* C22: when the resolution fails inside GenerateBoilerplate, the call
\* returns the resolution error and writes nothing: there is no pom.xml
\* afterwards, and a later call is not refused for an existing manifest.
C22_FailedResolutionWritesNothing ==
  ResolutionFailedInside =>
    (/\ ~last.panic
     /\ last.err = fetchError
     /\ last.writes = <<>>
     /\ ~exists(fs[last.dir], pomPath)
     /\ \A p \in Paths : fs[last.dir][p] = Absent \/ fs[last.dir][p] = EmptyDir[p]
     /\ \A v \in VersionOutcomes :
          GenerateBoilerplateResult(fs[last.dir], version, v, NoFault).err
            # ErrBoilerplateExists)

ImageReturned ==
  /\ last.op \in {"BuildFromImage", "RunFromImage"}
  /\ ~last.panic
  /\ last.image # NoImage

\* C23: once BuildFromImage has returned an image tagged with FDK version T,
\* every image that BuildFromImage or RunFromImage returns afterwards on the
\* helper carries the same T, whatever the registries answer and however the
\* override variable changes in between.
C23_ImagesKeepOneVersion ==
  (firstBuild.done /\ ImageReturned) => last.image[2] = firstBuild.tag

\* ------------------------------------------------------ what ListApp owes
\* the applications of the first k pages, as the adapter shows them
RECURSIVE FirstPages(_, _)
FirstPages(sizes, k) ==
  IF k = 0 THEN <<>>
  ELSE FirstPages(sizes, k - 1) \o convertOCIAppsToAdapterApps(PageItems(sizes, k))
Available(service) == SumSizes(service.sizes, Len(service.sizes))
Minimum(a, b) == IF a <= b THEN a ELSE b
NoDuplicates(list) == \A i, j \in DOMAIN list : list[i] = list[j] => i = j

\* C24: with n > 0, ListApp asks for the next page as long as it has fewer
\* than n applications and the last answer had a next page.  It makes no
\* more requests than there are pages, returns the applications of the
\* pages it fetched, in order and without duplicates, at least min(n, all
\* there are) of them, and returns the error of the first request that
\* fails.
C24_ListAppCollectsEnough ==
  listApp.n > 0 =>
    (/\ listApp.requests <= Len(listApp.service.sizes)
     /\ (listApp.pc = "done" /\ listApp.service.failAt \in 1..listApp.requests) =>
          (/\ listApp.err = ErrService
           /\ listApp.apps = <<>>
           /\ listApp.requests = listApp.service.failAt)
     /\ (listApp.pc = "done" /\ listApp.service.failAt = 0) =>
          (/\ listApp.err = NilErr
           /\ listApp.apps = FirstPages(listApp.service.sizes, listApp.requests)
           /\ NoDuplicates(listApp.apps)
           /\ listApp.requests < Len(listApp.service.sizes) =>
                Len(listApp.apps) >= listApp.n
           /\ Len(listApp.apps) >= Minimum(listApp.n, Available(listApp.service))))

====
